---------------------------- MODULE Spec2Model ----------------------------
(***************************************************************************)
(* A model of src/script.js: the UnixClock widget.  One object owns the    *)
(* state (current timestamp, loaded milestones, visible window, scroll     *)
(* offset, interval timer); the browser drives it through callbacks: the   *)
(* settling of fetch() and response.json() during init, the interval       *)
(* timer, wheel / key / touch events, visibilitychange and beforeunload.   *)
(* Each callback runs to completion, so each is one action.                *)
(***************************************************************************)
EXTENDS Integers, Sequences, FiniteSets, TLC

VARIABLES
    wallClock,          \* the browser's Date: <<seconds, milliseconds>>
    documentHidden,     \* document.hidden
    pc,                 \* where init() stands: constructed, fetching, parsing, done
    responseBody,       \* the body response.json() is reading (<<>>: none)
    currentTimestamp,   \* state.currentTimestamp
    currentDateTime,    \* state.currentDateTime (<<>> is null)
    allMilestones,      \* state.allMilestones
    visibleMilestones,  \* state.visibleMilestones: [top, bottom]
    milestoneOffset,    \* state.milestoneOffset
    isRunning,          \* state.isRunning
    updateInterval,     \* state.updateInterval (0 is null)
    timers,             \* the interval handles the browser holds active
    nextHandle,         \* the handle the next setInterval call returns
    lastScrollDirection,\* the argument of the latest scrollMilestones call (<<>>: none yet)
    listeners,          \* which document listeners are registered
    touchState,         \* touchState.startY (<<>> is null), touchState.isScrolling
    topCards,           \* the cards in #milestone-container-top
    bottomCards         \* the cards in #milestone-container-bottom

vars == <<wallClock, documentHidden, pc, responseBody, currentTimestamp,
          currentDateTime, allMilestones, visibleMilestones, milestoneOffset,
          isRunning, updateInterval, timers, nextHandle, lastScrollDirection,
          listeners, touchState, topCards, bottomCards>>

(***************************************************************************)
(* Bounds of the model.                                                    *)
(***************************************************************************)
\* The wall clock starts here (seconds since the epoch) ...
ClockStart == 999999999
\* ... and advances at most this many seconds.
MaxClockSeconds == 1
\* |milestoneOffset| is explored up to this many scroll steps.
MaxOffset == 1
\* SpecWindow: milestone timestamps are drawn from 1..MaxTs, now from 0..MaxTs+1.
MaxTs == 7
\* SpecWindow: offsets are drawn from -MaxWinOffset..MaxWinOffset.
MaxWinOffset == 8
\* Full cycles compared by the circularity property: k in -MaxCycles..MaxCycles.
MaxCycles == 2
\* The widest seed document the server delivers.
MaxSeed == 7
\* setInterval is called at most this many times.
MaxIntervals == 2
\* SpecLoad: every document of up to this many records is delivered.
MaxEntries == 2

(***************************************************************************)
(* Program constants.                                                      *)
(***************************************************************************)
maxMilestones == 20
threshold == 50
WindowLimit == 6
MsPerSecond == 1000

(***************************************************************************)
(* JavaScript numbers.  A timestamp read from JSON is any number: the      *)
(* model has the integers, the halves (i + 0.5) and Infinity (JSON.parse   *)
(* of 1e999).  <<i, 0>> is i, <<i, 1>> is i + 0.5, <<0, 2>> is Infinity.   *)
(***************************************************************************)
Num(i) == <<i, 0>>
Half(i) == <<i, 1>>
Infinity == <<0, 2>>
IsInf(a) == a[2] = 2

\* a < b on numbers.
NumLT(a, b) ==
    IF IsInf(a) THEN FALSE
    ELSE IF IsInf(b) THEN TRUE
    ELSE a[1] < b[1] \/ (a[1] = b[1] /\ a[2] < b[2])

NumLE(a, b) == a = b \/ NumLT(a, b)
NumGT(a, b) == NumLT(b, a)

\* Math.abs(a - n) for a finite number a and an integer n.
AbsDiff(a, n) ==
    IF a[1] >= n THEN <<a[1] - n, a[2]>>
    ELSE IF a[2] = 0 THEN <<n - a[1], 0>>
    ELSE <<n - a[1] - 1, 1>>

\* The sign of a - b as Array.prototype.sort reads it: Infinity - Infinity is
\* NaN, which sort treats as 0.
CompareSign(a, b) ==
    IF a = b THEN 0 ELSE IF NumLT(a, b) THEN -1 ELSE 1

\* JavaScript's %: the remainder takes the sign of the dividend.
JSRem(a, n) == IF a >= 0 THEN a % n ELSE -((-a) % n)

Min(a, b) == IF a <= b THEN a ELSE b
Max(a, b) == IF a >= b THEN a ELSE b

(***************************************************************************)
(* Milestone records as they come out of JSON.  isObject is FALSE for null *)
(* and for primitives; tsType / descType are the typeof of the two fields. *)
(* The optional significance text is only displayed and is left out.       *)
(***************************************************************************)
Entry(obj, tt, ts, dt, d) ==
    [isObject |-> obj, tsType |-> tt, timestamp |-> ts,
     descType |-> dt, description |-> d]

Milestone(ts, d) == Entry(TRUE, "number", ts, "string", d)

\* A slot read past the end of an array.
Undefined == Entry(FALSE, "undefined", Num(0), "undefined", "")

\* String.prototype.trim on the strings of the model: the whitespace-only ones
\* trim to the empty string, the others carry no outer whitespace.
WhitespaceOnly == {"", " ", " \t "}
Trim(s) == IF s \in WhitespaceOnly THEN "" ELSE s

\* Array indexing, 0-based: out of range reads undefined.
At(arr, index) ==
    IF index >= 0 /\ index < Len(arr) THEN arr[index + 1] ELSE Undefined

\* Array.prototype.slice(from, to) for 0 <= from.
Slice(arr, from, to) ==
    LET hi == Min(to, Len(arr))
    IN  IF from >= hi THEN <<>> ELSE [i \in 1..(hi - from) |-> arr[from + i]]

\* The elements of a finite set of integers in ascending order.
Ascending(S) ==
    [i \in 1..Cardinality(S) |-> CHOOSE x \in S : Cardinality({y \in S : y <= x}) = i]

\* The array left in the order it came in.
SortByTimestamp_KeepsOrder(arr) == arr

\* [...arr].sort((a, b) => a.timestamp - b.timestamp).  The sort is stable, so
\* the element at index j lands behind those that compare smaller and those
\* that compare equal and stand before it.  The array is bound once, as the
\* copy the spread makes.
SortByTimestamp(arr) ==
    LET Sorted(copy) ==
            LET Before(j) ==
                    {k \in 1..Len(copy) :
                        LET sign == CompareSign(copy[k].timestamp, copy[j].timestamp)
                        IN  sign < 0 \/ (sign = 0 /\ k < j)}
                Placed(rank) ==
                    [i \in 1..Len(copy) |-> copy[CHOOSE j \in 1..Len(copy) : rank[j] = i - 1]]
            IN  CHOOSE result \in
                    {Placed(rank) :
                        rank \in {[j \in 1..Len(copy) |-> Cardinality(Before(j))]}} : TRUE
    IN  CHOOSE result \in {Sorted(copy) : copy \in {arr}} : TRUE

IsSorted(arr) ==
    \A i \in 1..(Len(arr) - 1) : CompareSign(arr[i].timestamp, arr[i + 1].timestamp) <= 0

(***************************************************************************)
(* updateVisibleMilestones: the window of up to 6 milestones around now.   *)
(***************************************************************************)
\* allMilestones.findIndex(m => m.timestamp > currentTimestamp), 0-based, -1 if none.
FirstFutureIndex(sorted, now) ==
    LET future == {i \in 1..Len(sorted) : NumGT(sorted[i].timestamp, Num(now))}
    IN  IF future = {} THEN -1
        ELSE (CHOOSE i \in future : \A j \in future : i <= j) - 1

PastCount(sorted, now) ==
    IF FirstFutureIndex(sorted, now) = -1 THEN Len(sorted)
    ELSE FirstFutureIndex(sorted, now)

BaseStartIndex_AtBoundary(pastCount) == pastCount
BaseStartIndex(pastCount) ==
    IF pastCount >= 3 THEN pastCount - 3 ELSE Max(0, pastCount - 3)

\* ((startIndex + i) % totalMilestones + totalMilestones) % totalMilestones
CircularIndex_SingleModulo(startIndex, i, total) == JSRem(startIndex + i, total)
CircularIndex_Clamped(startIndex, i, total) == Min(Max(startIndex + i, 0), total - 1)
CircularIndex(startIndex, i, total) ==
    JSRem(JSRem(startIndex + i, total) + total, total)

\* The loop bound Math.min(6, totalMilestones).
WindowSize_AlwaysSix(total) == WindowLimit
WindowSize(total) == Min(WindowLimit, total)

\* The visibleMilestones array the loop builds.  sorted and startIndex are
\* the locals of the method, each computed once.
WindowEntries(all, now, offset) ==
    LET Loop(sorted, startIndex) ==
            [i \in 1..WindowSize(Len(sorted)) |->
                At(sorted, CircularIndex(startIndex, i - 1, Len(sorted)))]
        From(sorted) ==
            CHOOSE visible \in
                {Loop(sorted, startIndex) :
                    startIndex \in {BaseStartIndex(PastCount(sorted, now)) + offset}} : TRUE
    IN  CHOOSE visible \in {From(sorted) : sorted \in {SortByTimestamp(all)}} : TRUE

\* The new state.visibleMilestones.
UpdatedVisible(all, now, offset) ==
    LET Split(total, visible) ==
            IF total < WindowLimit
            THEN [top |-> Slice(visible, 0, Min(3, Len(visible))),
                  bottom |-> Slice(visible, 3, Len(visible))]
            ELSE [top |-> Slice(visible, 0, 3),
                  bottom |-> Slice(visible, 3, 6)]
        Windowed(milestones) ==
            IF Len(milestones) = 0 THEN [top |-> <<>>, bottom |-> <<>>]
            ELSE CHOOSE window \in
                    {Split(Len(milestones), visible) :
                        visible \in {WindowEntries(milestones, now, offset)}} : TRUE
    IN  CHOOSE window \in {Windowed(milestones) : milestones \in {all}} : TRUE

(***************************************************************************)
(* The clock and the milestone cards.                                      *)
(***************************************************************************)
\* Math.floor(now.getTime() / 1000): the Date is <<seconds, milliseconds>> with
\* 0 <= milliseconds < 1000, and the floor drops the milliseconds.
UnixSeconds(date) == date[1]

\* new Date(timestamp * 1000).toISOString() throws a RangeError beyond
\* +-8.64e15 ms; of the numbers of the model only Infinity is out of range.
DateOutOfRange(ts) == IsInf(ts)

\* parseInt of the data-raw attribute (timestamp.toString()) of a card: the
\* digits before the decimal point.
ParseInt(raw) == <<raw[1], 0>>

\* calculateCountdown (the calendar units it also returns are never shown).
CalculateCountdown(milestoneTimestamp, now) ==
    [isPast |-> NumLE(milestoneTimestamp, Num(now)),
     totalSeconds |-> AbsDiff(milestoneTimestamp, now)]

\* formatCountdownUnix: the seconds shown and the direction label.
FormatCountdownUnix(countdown) ==
    [seconds |-> countdown.totalSeconds,
     direction |-> IF countdown.isPast THEN "ago" ELSE "from now"]

\* createMilestoneCard, for a milestone whose date is in range: the class list,
\* the data-raw attribute, the countdown value and the countdown label.
CreateMilestoneCard(milestone, now) ==
    LET formatted == FormatCountdownUnix(CalculateCountdown(milestone.timestamp, now))
    IN  [classList |-> {"milestone-card",
                        IF NumLE(milestone.timestamp, Num(now)) THEN "past" ELSE "future"},
         raw |-> milestone.timestamp,
         seconds |-> formatted.seconds,
         direction |-> formatted.direction]

\* renderMilestoneSection / renderMilestoneSectionWithAnimation: the container is
\* emptied and a card appended per milestone, until createMilestoneCard throws.
RenderThrows(milestones) ==
    \E i \in 1..Len(milestones) : DateOutOfRange(milestones[i].timestamp)

RenderSection(milestones, now) ==
    LET bad == {i \in 1..Len(milestones) : DateOutOfRange(milestones[i].timestamp)}
        n == IF bad = {} THEN Len(milestones)
             ELSE (CHOOSE i \in bad : \A j \in bad : i <= j) - 1
    IN  [i \in 1..n |-> CreateMilestoneCard(milestones[i], now)]

\* updateMilestoneStates on one card.
ReclassifiedCard(card, now) ==
    LET isPast == NumLE(ParseInt(card.raw), Num(now))
    IN  IF isPast /\ "past" \notin card.classList
        THEN [card EXCEPT !.classList = (@ \ {"future"}) \cup {"past"}]
        ELSE IF ~isPast /\ "future" \notin card.classList
        THEN [card EXCEPT !.classList = (@ \ {"past"}) \cup {"future"}]
        ELSE card

\* updateCountdownTimers on one card.
RecountedCard(card, now) ==
    LET formatted == FormatCountdownUnix(CalculateCountdown(ParseInt(card.raw), now))
    IN  [card EXCEPT !.seconds = formatted.seconds, !.direction = formatted.direction]

\* What updateClock does to the cards of a container.
TickedCards(cards, now) ==
    [i \in 1..Len(cards) |-> RecountedCard(ReclassifiedCard(cards[i], now), now)]

\* startClock with its guard inverted: a clock that is not running is never started.
StartClock_InvertedGuard(running, interval, active, next) ==
    IF ~running
    THEN [isRunning |-> running, updateInterval |-> interval, timers |-> active,
          nextHandle |-> next]
    ELSE [isRunning |-> TRUE, updateInterval |-> next,
          timers |-> active \cup {next}, nextHandle |-> next + 1]

\* startClock: [isRunning, updateInterval, timers, nextHandle] afterwards.
\* setInterval returns a fresh handle, a positive integer.
StartClock(running, interval, active, next) ==
    IF running
    THEN [isRunning |-> running, updateInterval |-> interval, timers |-> active,
          nextHandle |-> next]
    ELSE [isRunning |-> TRUE, updateInterval |-> next,
          timers |-> active \cup {next}, nextHandle |-> next + 1]

\* stopClock without its clearInterval: the flag drops, the interval stays.
StopClock_LeavesInterval(running, interval, active) ==
    IF ~running
    THEN [isRunning |-> running, updateInterval |-> interval, timers |-> active]
    ELSE [isRunning |-> FALSE, updateInterval |-> 0, timers |-> active]

\* stopClock: [isRunning, updateInterval, timers] afterwards.
StopClock(running, interval, active) ==
    IF ~running
    THEN [isRunning |-> running, updateInterval |-> interval, timers |-> active]
    ELSE IF interval # 0
    THEN [isRunning |-> FALSE, updateInterval |-> 0, timers |-> active \ {interval}]
    ELSE [isRunning |-> FALSE, updateInterval |-> interval, timers |-> active]

(***************************************************************************)
(* Milestone loading: validateMilestoneData, loadMilestones, the fallback. *)
(***************************************************************************)
\* The filter predicate without its test of the trimmed description.
IsValidMilestone_AcceptsBlank(m) ==
    /\ m.isObject
    /\ m.tsType = "number" /\ ~NumLT(m.timestamp, Num(0))
    /\ m.descType = "string"

\* The filter predicate of validateMilestoneData.
IsValidMilestone(m) ==
    /\ m.isObject
    /\ m.tsType = "number" /\ ~NumLT(m.timestamp, Num(0))
    /\ m.descType = "string" /\ Trim(m.description) # ""

\* Array.prototype.filter with that predicate: the valid records, in order.
ValidMilestones(entries) ==
    LET kept == Ascending({j \in 1..Len(entries) : IsValidMilestone(entries[j])})
    IN  [i \in 1..Len(kept) |-> entries[kept[i]]]

\* getFallbackMilestones.
GetFallbackMilestones ==
    << Milestone(Num(1000000000), "Unix timestamp reached 1 billion"),
       Milestone(Num(2000000000), "Unix timestamp reaches 2 billion"),
       Milestone(Num(2147483647), "32-bit signed integer limit") >>

\* loadMilestones without the fallback for a document with no valid record.
StoredMilestones_NoFallback(entries) ==
    SortByTimestamp(Slice(ValidMilestones(entries), 0, maxMilestones))

\* What loadMilestones stores for a data.milestones array: the validated records,
\* cut to maxMilestones and sorted, or the fallback when none is valid.
StoredMilestones(entries) ==
    IF Len(ValidMilestones(entries)) = 0 THEN GetFallbackMilestones
    ELSE SortByTimestamp(Slice(ValidMilestones(entries), 0, maxMilestones))

(***************************************************************************)
(* The documents the server may deliver.  A seed document holds milestones *)
(* around the time of the run, out of order; the others carry records that *)
(* validation must drop, a fractional timestamp, and a timestamp too large *)
(* for a Date.                                                             *)
(***************************************************************************)
\* Seed timestamps: ClockStart, ClockStart + 1, ClockStart - 1, ClockStart + 2, ...
SeedTimestamp(i) ==
    IF i % 2 = 1 THEN ClockStart - (i - 1) \div 2 ELSE ClockStart + i \div 2

SeedDocument(n) == [i \in 1..n |-> Milestone(Num(SeedTimestamp(i)), "seed")]

InvalidEntries ==
    { Entry(FALSE, "undefined", Num(0), "undefined", ""),
      Entry(TRUE, "string", Num(0), "string", "text timestamp"),
      Entry(TRUE, "number", Num(-1), "string", "negative"),
      Entry(TRUE, "number", Num(ClockStart), "undefined", ""),
      Entry(TRUE, "number", Num(ClockStart), "string", " \t ") }

Documents ==
    { SeedDocument(n) : n \in {MaxSeed - 1, MaxSeed} }
    \cup { << Entry(TRUE, "number", Num(-1), "string", "negative") >> }
    \cup { << Milestone(Half(ClockStart), "half"), Milestone(Num(ClockStart + 1), "whole") >>,
           << Milestone(Infinity, "never"), Milestone(Num(ClockStart + 1), "whole") >>,
           Append(SeedDocument(MaxSeed), Milestone(Infinity, "never")) }

(***************************************************************************)
(* Initial state: the page after new UnixClock().                          *)
(***************************************************************************)
NoWindow == [top |-> <<>>, bottom |-> <<>>]

Init ==
    /\ wallClock = <<ClockStart, 0>>
    /\ documentHidden \in BOOLEAN
    /\ pc = "constructed"
    /\ responseBody = <<>>
    /\ currentTimestamp = 0
    /\ currentDateTime = <<>>
    /\ allMilestones = <<>>
    /\ visibleMilestones = NoWindow
    /\ milestoneOffset = 0
    /\ isRunning = FALSE
    /\ updateInterval = 0
    /\ timers = {}
    /\ nextHandle = 1
    /\ lastScrollDirection = <<>>
    /\ listeners = [scroll |-> FALSE, visibilitychange |-> FALSE]
    /\ touchState = [startY |-> <<>>, isScrolling |-> FALSE]
    /\ topCards = <<>>
    /\ bottomCards = <<>>

(***************************************************************************)
(* Time.                                                                   *)
(***************************************************************************)
\* The wall clock moves on by half a second.
AdvanceClock ==
    /\ wallClock[1] < ClockStart + MaxClockSeconds
    /\ wallClock' = IF wallClock[2] = 0 THEN <<wallClock[1], MsPerSecond \div 2>>
                    ELSE <<wallClock[1] + 1, 0>>
    /\ UNCHANGED <<documentHidden, pc, responseBody, currentTimestamp,
                   currentDateTime, allMilestones, visibleMilestones, milestoneOffset,
                   isRunning, updateInterval, timers, nextHandle, lastScrollDirection,
                   listeners, touchState, topCards, bottomCards>>

\* updateClock: the timestamp, the date, and the cards in the document.
UpdateClock ==
    /\ currentTimestamp' = UnixSeconds(wallClock)
    /\ currentDateTime' = wallClock
    /\ topCards' = TickedCards(topCards, UnixSeconds(wallClock))
    /\ bottomCards' = TickedCards(bottomCards, UnixSeconds(wallClock))

\* An interval callback that also sets the display up again, as
\* initializeMilestoneDisplay does: the offset is reset and the window recomputed.
Tick_ReinitializesDisplay ==
    /\ timers # {}
    /\ UpdateClock
    /\ milestoneOffset' = 0
    /\ visibleMilestones' =
           UpdatedVisible(allMilestones, UnixSeconds(wallClock), 0)
    /\ UNCHANGED <<wallClock, responseBody, documentHidden, pc, allMilestones,
                   isRunning, updateInterval, timers, nextHandle,
                   lastScrollDirection, listeners, touchState>>

\* The interval callback of an active timer.
Tick ==
    /\ timers # {}
    /\ UpdateClock
    /\ UNCHANGED <<wallClock, responseBody, documentHidden, pc, allMilestones,
                   visibleMilestones, milestoneOffset, isRunning, updateInterval,
                   timers, nextHandle, lastScrollDirection, listeners, touchState>>

(***************************************************************************)
(* init.                                                                   *)
(***************************************************************************)
\* init up to its first await: loadMilestones has called fetch.
InitBegin ==
    /\ pc = "constructed"
    /\ pc' = "fetching"
    /\ UNCHANGED <<wallClock, responseBody, documentHidden, currentTimestamp,
                   currentDateTime, allMilestones, visibleMilestones, milestoneOffset,
                   isRunning, updateInterval, timers, nextHandle, lastScrollDirection,
                   listeners, touchState, topCards, bottomCards>>

\* init after loadMilestones has stored `stored`: updateClock,
\* initializeMilestoneDisplay, initializeScrollHandlers, startClock and the
\* visibilitychange listener; or, when rendering throws, the catch block's
\* updateClock and startClock.
InitAfterLoad(stored) ==
    \E now \in {UnixSeconds(wallClock)}, milestones \in {stored} :
    \E sorted \in {IF Len(milestones) # 0 THEN SortByTimestamp(milestones) ELSE milestones} :
    \E window \in {IF Len(milestones) # 0 THEN UpdatedVisible(sorted, now, 0)
                    ELSE visibleMilestones} :
        LET display == Len(milestones) # 0
            topThrows == display /\ RenderThrows(window.top)
            throws == display /\ (RenderThrows(window.top) \/ RenderThrows(window.bottom))
            top == IF display THEN RenderSection(window.top, now)
                   ELSE TickedCards(topCards, now)
            bottom == IF display /\ ~topThrows THEN RenderSection(window.bottom, now)
                      ELSE TickedCards(bottomCards, now)
            clock == StartClock(isRunning, updateInterval, timers, nextHandle)
        IN  /\ currentTimestamp' = now
            /\ currentDateTime' = wallClock
            /\ allMilestones' = sorted
            /\ milestoneOffset' = IF display THEN 0 ELSE milestoneOffset
            /\ visibleMilestones' = window
            /\ topCards' = IF throws THEN TickedCards(top, now) ELSE top
            /\ bottomCards' = IF throws THEN TickedCards(bottom, now) ELSE bottom
            /\ listeners' = IF throws THEN listeners
                            ELSE [scroll |-> TRUE, visibilitychange |-> TRUE]
            /\ isRunning' = clock.isRunning
            /\ updateInterval' = clock.updateInterval
            /\ timers' = clock.timers
            /\ nextHandle' = clock.nextHandle
            /\ pc' = "done"

\* fetch rejects (no network, CORS, file://): the fallback, then the rest of init.
FetchRejects ==
    /\ pc = "fetching"
    /\ InitAfterLoad(GetFallbackMilestones)
    /\ UNCHANGED <<wallClock, responseBody, documentHidden, lastScrollDirection, touchState>>

\* The response arrives with ok false.
ResponseNotOk ==
    /\ pc = "fetching"
    /\ InitAfterLoad(GetFallbackMilestones)
    /\ UNCHANGED <<wallClock, responseBody, documentHidden, lastScrollDirection, touchState>>

\* What response.json() can make of a body: a rejection (the body is not JSON),
\* a value without a milestones array, or a document with one.
NotJson == [kind |-> "not json", milestones |-> <<>>]
NoMilestonesArray == [kind |-> "no milestones array", milestones |-> <<>>]
Bodies(documents) ==
    {NotJson, NoMilestonesArray}
    \cup { [kind |-> "document", milestones |-> document] : document \in documents }

\* The response arrives with ok true and one of these bodies: loadMilestones
\* awaits response.json().
Respond(bodies) ==
    /\ pc = "fetching"
    /\ pc' = "parsing"
    /\ \E body \in bodies : responseBody' = <<body>>
    /\ UNCHANGED <<wallClock, documentHidden, currentTimestamp,
                   currentDateTime, allMilestones, visibleMilestones, milestoneOffset,
                   isRunning, updateInterval, timers, nextHandle, lastScrollDirection,
                   listeners, touchState, topCards, bottomCards>>

\* response.json() rejects: the body is not JSON.
JsonRejects ==
    /\ pc = "parsing"
    /\ responseBody[1].kind = "not json"
    /\ responseBody' = <<>>
    /\ InitAfterLoad(GetFallbackMilestones)
    /\ UNCHANGED <<wallClock, documentHidden, lastScrollDirection, touchState>>

\* response.json() delivers a value without a milestones array:
\* validateMilestoneData throws.
JsonWithoutMilestones ==
    /\ pc = "parsing"
    /\ responseBody[1].kind = "no milestones array"
    /\ responseBody' = <<>>
    /\ InitAfterLoad(GetFallbackMilestones)
    /\ UNCHANGED <<wallClock, documentHidden, lastScrollDirection, touchState>>

\* response.json() delivers a document with a milestones array.
JsonResolves ==
    /\ pc = "parsing"
    /\ responseBody[1].kind = "document"
    /\ responseBody' = <<>>
    /\ InitAfterLoad(StoredMilestones(responseBody[1].milestones))
    /\ UNCHANGED <<wallClock, documentHidden, lastScrollDirection, touchState>>

(***************************************************************************)
(* Visibility.                                                             *)
(***************************************************************************)
\* handleVisibilityChange, with document.hidden as it is after the change.
HandleVisibilityChange(hidden) ==
    IF hidden
    THEN LET clock == StopClock(isRunning, updateInterval, timers)
         IN  /\ isRunning' = clock.isRunning
             /\ updateInterval' = clock.updateInterval
             /\ timers' = clock.timers
             /\ UNCHANGED <<currentTimestamp, currentDateTime, topCards, bottomCards,
                            nextHandle>>
    ELSE LET clock == StartClock(isRunning, updateInterval, timers, nextHandle)
         IN  /\ UpdateClock
             /\ isRunning' = clock.isRunning
             /\ updateInterval' = clock.updateInterval
             /\ timers' = clock.timers
             /\ nextHandle' = clock.nextHandle

\* The tab is hidden or shown; the handler runs if init has registered it.
\* No event is delivered between new UnixClock() and init(), which the
\* DOMContentLoaded handler calls back to back.
VisibilityChange ==
    /\ pc # "constructed"
    /\ documentHidden' = ~documentHidden
    /\ IF listeners.visibilitychange
       THEN /\ (documentHidden /\ ~isRunning) => nextHandle <= MaxIntervals
            /\ HandleVisibilityChange(documentHidden')
       ELSE UNCHANGED <<currentTimestamp, currentDateTime, topCards, bottomCards,
                        isRunning, updateInterval, timers, nextHandle>>
    /\ UNCHANGED <<wallClock, responseBody, pc, allMilestones,
                   visibleMilestones, milestoneOffset, lastScrollDirection,
                   listeners, touchState>>

(***************************************************************************)
(* Scrolling.                                                              *)
(***************************************************************************)
\* The early return of scrollMilestones: nothing to scroll.
NothingToScroll_FewerThanSix(totalMilestones) == totalMilestones < WindowLimit
NothingToScroll(totalMilestones) == totalMilestones <= WindowLimit

\* scrollMilestones without its call of updateVisibleMilestones: the offset
\* moves and the containers are rendered from the window as it was.
ScrollMilestones_StaleWindow(direction) ==
    /\ lastScrollDirection' = <<direction>>
    /\ IF NothingToScroll(Len(allMilestones))
       THEN UNCHANGED <<milestoneOffset, visibleMilestones, topCards, bottomCards>>
       ELSE /\ milestoneOffset' = milestoneOffset + direction
            /\ visibleMilestones' = visibleMilestones
            /\ topCards' = RenderSection(visibleMilestones.top, currentTimestamp)
            /\ bottomCards' = IF RenderThrows(visibleMilestones.top) THEN bottomCards
                              ELSE RenderSection(visibleMilestones.bottom, currentTimestamp)

\* scrollMilestones(direction): the offset, the window and both containers (the
\* bottom one is left as it is when rendering the top one throws).
ScrollMilestones(direction) ==
    /\ lastScrollDirection' = <<direction>>
    /\ IF NothingToScroll(Len(allMilestones))
       THEN UNCHANGED <<milestoneOffset, visibleMilestones, topCards, bottomCards>>
       ELSE \E window \in {UpdatedVisible(allMilestones, currentTimestamp,
                                           milestoneOffset + direction)} :
                /\ milestoneOffset' = milestoneOffset + direction
                /\ visibleMilestones' = window
                /\ topCards' = RenderSection(window.top, currentTimestamp)
                /\ bottomCards' = IF RenderThrows(window.top) THEN bottomCards
                                  ELSE RenderSection(window.bottom, currentTimestamp)

\* The offsets the model explores.
WithinOffsetBound(direction) ==
    \/ NothingToScroll(Len(allMilestones))
    \/ (milestoneOffset + direction <= MaxOffset /\ milestoneOffset + direction >= -MaxOffset)

\* Math.sign
Sign(x) == IF x > 0 THEN 1 ELSE IF x < 0 THEN -1 ELSE 0

\* The deltaY of a wheel event: up, down, or none (a horizontal scroll).
WheelDeltas == {-100, 0, 100}

\* handleWheel
HandleWheel(deltaY) ==
    /\ listeners.scroll
    /\ WithinOffsetBound(Sign(deltaY))
    /\ ScrollMilestones(Sign(deltaY))
    /\ UNCHANGED <<wallClock, responseBody, documentHidden, pc, currentTimestamp,
                   currentDateTime, allMilestones, isRunning, updateInterval, timers,
                   nextHandle, listeners, touchState>>

Keys == {"ArrowUp", "ArrowDown", "Enter"}

\* The direction handleKeyboard scrolls in, 0 when it does not scroll.
KeyDirection(key, onTarget) ==
    IF ~onTarget THEN 0
    ELSE IF key = "ArrowUp" THEN -1
    ELSE IF key = "ArrowDown" THEN 1
    ELSE 0

\* handleKeyboard; onTarget: the event's target is the body or a milestone card.
HandleKeyboard(key, onTarget) ==
    /\ listeners.scroll
    /\ IF KeyDirection(key, onTarget) = 0
       THEN UNCHANGED <<milestoneOffset, visibleMilestones, topCards, bottomCards,
                        lastScrollDirection>>
       ELSE /\ WithinOffsetBound(KeyDirection(key, onTarget))
            /\ ScrollMilestones(KeyDirection(key, onTarget))
    /\ UNCHANGED <<wallClock, responseBody, documentHidden, pc, currentTimestamp,
                   currentDateTime, allMilestones, isRunning, updateInterval, timers,
                   nextHandle, listeners, touchState>>

\* The clientY of a touch point.
TouchPositions == {0, threshold, 2 * threshold + 10}

\* handleTouchStart (startTime is written and never read: left out).
HandleTouchStart(clientY) ==
    /\ listeners.scroll
    /\ touchState' = [startY |-> <<clientY>>, isScrolling |-> FALSE]
    /\ UNCHANGED <<wallClock, responseBody, documentHidden, pc, currentTimestamp,
                   currentDateTime, allMilestones, visibleMilestones, milestoneOffset,
                   isRunning, updateInterval, timers, nextHandle, lastScrollDirection,
                   listeners, topCards, bottomCards>>

\* !touchState.startY: null and 0 are falsy.
NoTouchStart(startY) == startY = <<>> \/ startY = <<0>>

\* handleTouchMove's test without its look at isScrolling.
TouchScrolls_EveryMove(clientY) ==
    /\ ~NoTouchStart(touchState.startY)
    /\ (touchState.startY[1] - clientY > threshold
        \/ clientY - touchState.startY[1] > threshold)

\* Whether handleTouchMove scrolls, and in which direction.
TouchScrolls(clientY) ==
    /\ ~NoTouchStart(touchState.startY)
    /\ ~touchState.isScrolling
    /\ (touchState.startY[1] - clientY > threshold
        \/ clientY - touchState.startY[1] > threshold)

TouchDirection(clientY) == IF touchState.startY[1] - clientY > 0 THEN 1 ELSE -1

\* handleTouchMove
HandleTouchMove(clientY) ==
    /\ listeners.scroll
    /\ IF TouchScrolls(clientY)
       THEN /\ WithinOffsetBound(TouchDirection(clientY))
            /\ touchState' = [touchState EXCEPT !.isScrolling = TRUE]
            /\ ScrollMilestones(TouchDirection(clientY))
       ELSE UNCHANGED <<touchState, milestoneOffset, visibleMilestones,
                        topCards, bottomCards, lastScrollDirection>>
    /\ UNCHANGED <<wallClock, responseBody, documentHidden, pc, currentTimestamp,
                   currentDateTime, allMilestones, isRunning, updateInterval, timers,
                   nextHandle, listeners>>

\* handleTouchEnd
HandleTouchEnd ==
    /\ listeners.scroll
    /\ touchState' = [startY |-> <<>>, isScrolling |-> FALSE]
    /\ UNCHANGED <<wallClock, responseBody, documentHidden, pc, currentTimestamp,
                   currentDateTime, allMilestones, visibleMilestones, milestoneOffset,
                   isRunning, updateInterval, timers, nextHandle, lastScrollDirection,
                   listeners, topCards, bottomCards>>

(***************************************************************************)
(* destroy: the beforeunload handler, or a call on window.unixClock, which  *)
(* is assigned once init() has been called.                                *)
(***************************************************************************)
Destroy ==
    LET clock == StopClock(isRunning, updateInterval, timers)
    IN  /\ pc # "constructed"
        /\ isRunning' = clock.isRunning
        /\ updateInterval' = clock.updateInterval
        /\ timers' = clock.timers
        /\ listeners' = [scroll |-> FALSE, visibilitychange |-> FALSE]
        /\ allMilestones' = <<>>
        /\ visibleMilestones' = NoWindow
        /\ UNCHANGED <<wallClock, responseBody, documentHidden, pc,
                       currentTimestamp, currentDateTime, milestoneOffset, nextHandle,
                       lastScrollDirection, touchState, topCards, bottomCards>>

(***************************************************************************)
(* The widget in the browser.                                              *)
(***************************************************************************)
Wheel == \E deltaY \in WheelDeltas : HandleWheel(deltaY)
Keyboard == \E key \in Keys, onTarget \in BOOLEAN : HandleKeyboard(key, onTarget)
TouchStart == \E clientY \in TouchPositions : HandleTouchStart(clientY)
TouchMove == \E clientY \in TouchPositions : HandleTouchMove(clientY)
ResponseOk == Respond(Bodies(Documents))

Next ==
    \/ AdvanceClock
    \/ Tick
    \/ InitBegin
    \/ FetchRejects
    \/ ResponseNotOk
    \/ ResponseOk
    \/ JsonRejects
    \/ JsonWithoutMilestones
    \/ JsonResolves
    \/ VisibilityChange
    \/ Wheel
    \/ Keyboard
    \/ TouchStart
    \/ TouchMove
    \/ HandleTouchEnd
    \/ Destroy

Spec == Init /\ [][Next]_vars

\* Init cannot stay pending: the DOMContentLoaded handler calls init at once, and
\* the promises of fetch and response.json() settle.
LiveSpec ==
    /\ Spec
    /\ WF_vars(InitBegin)
    /\ WF_vars(FetchRejects \/ ResponseNotOk \/ ResponseOk)
    /\ WF_vars(JsonRejects \/ JsonWithoutMilestones \/ JsonResolves)

(***************************************************************************)
(* The widget once destroy() has run while init awaits the fetch: the       *)
(* DOMContentLoaded handler has called init(), which is pending in          *)
(* loadMilestones, and assigned window.unixClock; destroy() then found no   *)
(* timer to stop and no listener to remove, and left the state as it was.   *)
(***************************************************************************)
InitDestroyed ==
    /\ wallClock = <<ClockStart, 0>>
    /\ documentHidden \in BOOLEAN
    /\ pc = "fetching"
    /\ responseBody = <<>>
    /\ currentTimestamp = 0
    /\ currentDateTime = <<>>
    /\ allMilestones = <<>>
    /\ visibleMilestones = NoWindow
    /\ milestoneOffset = 0
    /\ isRunning = FALSE
    /\ updateInterval = 0
    /\ timers = {}
    /\ nextHandle = 1
    /\ lastScrollDirection = <<>>
    /\ listeners = [scroll |-> FALSE, visibilitychange |-> FALSE]
    /\ touchState = [startY |-> <<>>, isScrolling |-> FALSE]
    /\ topCards = <<>>
    /\ bottomCards = <<>>

NextDestroyed ==
    \/ AdvanceClock
    \/ Tick
    \/ FetchRejects
    \/ ResponseNotOk
    \/ ResponseOk
    \/ JsonRejects
    \/ JsonWithoutMilestones
    \/ JsonResolves
    \/ VisibilityChange
    \/ Wheel
    \/ Keyboard
    \/ TouchStart
    \/ TouchMove
    \/ HandleTouchEnd
    \/ Destroy

SpecDestroyed == InitDestroyed /\ [][NextDestroyed]_vars

(***************************************************************************)
(* The windowing function on its own: any sorted milestone set with        *)
(* timestamps in 1..MaxTs, any now, any offset.                            *)
(***************************************************************************)
MilestoneSets ==
    { [i \in 1..Cardinality(S) |-> Milestone(Num(Ascending(S)[i]), "milestone")] :
        S \in SUBSET (1..MaxTs) }

\* The seven-milestone set 100, 200, ..., 700 (already sorted).
HundredsSet ==
    [i \in 1..7 |-> Milestone(Num(100 * i), "milestone")]

InitWindow ==
    /\ wallClock = <<ClockStart, 0>>
    /\ documentHidden = FALSE
    /\ pc = "done"
    /\ responseBody = <<>>
    /\ \/ /\ currentTimestamp \in 0..(MaxTs + 1)
          /\ allMilestones \in MilestoneSets
       \/ /\ currentTimestamp = 350
          /\ allMilestones = HundredsSet
    /\ currentDateTime = <<>>
    /\ visibleMilestones = NoWindow
    /\ milestoneOffset \in (-MaxWinOffset)..MaxWinOffset
    /\ isRunning = FALSE
    /\ updateInterval = 0
    /\ timers = {}
    /\ nextHandle = 1
    /\ lastScrollDirection = <<>>
    /\ listeners = [scroll |-> FALSE, visibilitychange |-> FALSE]
    /\ touchState = [startY |-> <<>>, isScrolling |-> FALSE]
    /\ topCards = <<>>
    /\ bottomCards = <<>>

\* updateVisibleMilestones
UpdateVisibleMilestones ==
    /\ visibleMilestones' =
           UpdatedVisible(allMilestones, currentTimestamp, milestoneOffset)
    /\ UNCHANGED <<wallClock, responseBody, documentHidden, pc, currentTimestamp, currentDateTime,
                   allMilestones, milestoneOffset, isRunning, updateInterval, timers,
                   nextHandle, lastScrollDirection, listeners, touchState,
                   topCards, bottomCards>>

NextWindow == UpdateVisibleMilestones

SpecWindow == InitWindow /\ [][NextWindow]_vars

(***************************************************************************)
(* Loading on its own: every document of up to MaxEntries records, valid   *)
(* and invalid, the seed documents, and one longer than maxMilestones.     *)
(***************************************************************************)
LoadEntries ==
    InvalidEntries
    \cup { Milestone(Num(ClockStart), "now"),
           Milestone(Half(ClockStart), "half past"),
           Milestone(Num(ClockStart + 1), "next") }

\* A document that mixes records validation drops with records it keeps, one
\* of them at timestamp 0.
MixedDocument ==
    << Entry(TRUE, "number", Num(-1), "string", "negative"),
       Milestone(Num(ClockStart), "now"),
       Entry(TRUE, "number", Num(ClockStart), "string", " \t "),
       Entry(FALSE, "undefined", Num(0), "undefined", ""),
       Milestone(Num(0), "epoch") >>

LoadDocuments ==
    UNION { [1..n -> LoadEntries] : n \in 0..MaxEntries }
    \cup { SeedDocument(n) : n \in 0..MaxSeed }
    \cup { MixedDocument,
           SeedDocument(maxMilestones + 1),
           <<Entry(TRUE, "number", Num(-1), "string", "negative")>>
               \o SeedDocument(maxMilestones + 1) }

ResponseOkAny == Respond(Bodies(LoadDocuments))

NextLoad ==
    \/ AdvanceClock
    \/ Tick
    \/ InitBegin
    \/ FetchRejects
    \/ ResponseNotOk
    \/ ResponseOkAny
    \/ JsonRejects
    \/ JsonWithoutMilestones
    \/ JsonResolves
    \/ VisibilityChange
    \/ Destroy

SpecLoad == Init /\ [][NextLoad]_vars

(***************************************************************************)
(* Properties.                                                             *)
(***************************************************************************)
\* Every card in the document, top container first.
AllCards == topCards \o bottomCards

\* A wheel, key or touchmove event reached its handler.
ScrollEvent == Wheel \/ Keyboard \/ TouchMove

\* The timestamps of a milestone list.
Timestamps(milestones) == [i \in 1..Len(milestones) |-> milestones[i].timestamp]

\* C1: for every sorted milestone set, every now and every offset,
\* updateVisibleMilestones leaves len(above) + len(below) = min(6, N).
C1_WindowHoldsMinSixN ==
    [][UpdateVisibleMilestones =>
         Len(visibleMilestones'.top) + Len(visibleMilestones'.bottom)
             = (IF Len(allMilestones) < 6 THEN Len(allMilestones) ELSE 6)]_vars

\* C1 witness: a window of 3 + 2 computed for a set of five at a negative offset.
C1_Witness ==
    /\ Len(allMilestones) = 5
    /\ milestoneOffset < 0
    /\ Len(visibleMilestones.top) = 3
    /\ Len(visibleMilestones.bottom) = 2

\* C2: after every clock tick the stored window equals the windowing function of
\* the milestone set, the timestamp just updated and the scroll offset.
C2_TickRecomputesWindow ==
    [][Tick => visibleMilestones'
                 = UpdatedVisible(allMilestones', currentTimestamp', milestoneOffset')]_vars

\* C3: windowing with offset and with offset + N*k gives the same above and below,
\* for every set of N >= 1 milestones, every now, every offset and every k.
C3_FullCycleInvariance ==
    [][UpdateVisibleMilestones =>
         \A k \in (-MaxCycles)..MaxCycles :
             visibleMilestones' = UpdatedVisible(allMilestones, currentTimestamp,
                                      milestoneOffset + Len(allMilestones) * k)]_vars

\* C3 witness: a window computed for seven milestones at offset -5, which wraps.
C3_Witness ==
    /\ Len(allMilestones) = 7
    /\ milestoneOffset = -5
    /\ currentTimestamp = 3
    /\ Timestamps(visibleMilestones.bottom) = <<Num(6), Num(7), Num(1)>>

\* C4: with N <= 6 milestones loaded, no wheel, key or touch event changes
\* milestoneOffset.
C4_ScrollNoOp ==
    [][(Len(allMilestones) <= 6 /\ ScrollEvent)
          => milestoneOffset' = milestoneOffset]_vars

\* C4 witness: scrollMilestones has been called with six milestones loaded.
C4_Witness ==
    /\ Len(allMilestones) = 6
    /\ lastScrollDirection \in {<<1>>, <<-1>>}
    /\ milestoneOffset = 0

\* C5: every wheel, key or touch event that scrolls calls scrollMilestones with
\* direction -1 or +1, so with N > 6 it moves milestoneOffset by exactly one step.
C5_EveryScrollIsOneStep ==
    [][(Len(allMilestones) > 6 /\ ScrollEvent)
          => /\ lastScrollDirection' \in {<<1>>, <<-1>>}
             /\ milestoneOffset' - milestoneOffset \in {-1, 1}]_vars

\* C6: whenever the tab is hidden no interval timer is running.
C6_HiddenMeansPaused ==
    documentHidden => (~isRunning /\ updateInterval = 0)

\* C7: when the page becomes visible again after having been hidden,
\* currentTimestamp is set to the wall clock's second and the timer is running
\* afterwards.
C7_VisibleAgainResyncsAndRuns ==
    [][(documentHidden /\ ~documentHidden')
          => /\ currentTimestamp' = wallClock'[1]
             /\ currentDateTime' = wallClock'
             /\ isRunning'
             /\ updateInterval' \in timers']_vars

\* The three hard-coded fallback milestones.
IsFallback(milestones) ==
    Timestamps(milestones) = <<Num(1000000000), Num(2000000000), Num(2147483647)>>

\* The validated records of a document, as many as maxMilestones allows.
HoldsValidatedRecords(milestones, document) ==
    LET valid == {j \in 1..Len(document) : IsValidMilestone(document[j])}
    IN  /\ \A i \in 1..Len(milestones) : \E j \in valid : document[j] = milestones[i]
        /\ Len(milestones) = (IF Cardinality(valid) < maxMilestones THEN Cardinality(valid)
                              ELSE maxMilestones)
        /\ Cardinality(valid) <= maxMilestones =>
               \A j \in valid : \E i \in 1..Len(milestones) : milestones[i] = document[j]

\* C8: however loading ends, loadMilestones leaves a non-empty milestone set: the
\* validated records of the document, or else exactly the three fallback
\* milestones.
C8_LoadAlwaysYieldsMilestones ==
    [][(pc # "done" /\ pc' = "done")
          => /\ allMilestones' # <<>>
             /\ IF /\ pc = "parsing"
                   /\ responseBody[1].kind = "document"
                   /\ \E j \in 1..Len(responseBody[1].milestones) :
                          IsValidMilestone(responseBody[1].milestones[j])
                THEN HoldsValidatedRecords(allMilestones', responseBody[1].milestones)
                ELSE IsFallback(allMilestones')]_vars

\* C8 witness: loading has ended on a document of more than maxMilestones valid
\* records, with maxMilestones of them stored in ascending order.
C8_Witness ==
    /\ pc = "done"
    /\ Len(allMilestones) = maxMilestones
    /\ IsSorted(allMilestones)
    /\ ~IsFallback(allMilestones)

\* C9: for every load outcome init completes, with currentTimestamp set from the
\* wall clock and the periodic timer running.
C9_InitCompletesRunning ==
    /\ [][(pc # "done" /\ pc' = "done")
             => /\ currentTimestamp' = wallClock'[1]
                /\ isRunning'
                /\ updateInterval' \in timers']_vars
    /\ (pc # "done") ~> (pc = "done" /\ isRunning /\ updateInterval \in timers
                            /\ currentTimestamp = wallClock[1])

\* C9 witness: init has completed on the fallback set with the timer running.
C9_Witness ==
    /\ pc = "done"
    /\ IsFallback(allMilestones)
    /\ isRunning
    /\ updateInterval \in timers
    /\ currentTimestamp = wallClock[1]

\* C10: every card is tagged past and labelled 'ago' exactly when its milestone's
\* timestamp <= now, and future and 'from now' otherwise.
C10_ClassificationInclusiveConsistent ==
    \A i \in 1..Len(AllCards) :
        LET card == AllCards[i]
            isPast == NumLE(card.raw, Num(currentTimestamp))
        IN  /\ ("past" \in card.classList) <=> isPast
            /\ ("future" \in card.classList) <=> ~isPast
            /\ (card.direction = "ago") <=> isPast
            /\ (card.direction = "from now") <=> ~isPast

\* C11: the countdown shown on every card is |t - now| seconds for the card's
\* milestone timestamp t, labelled 'ago' if t <= now and 'from now' otherwise.
C11_CountdownShowsDistance ==
    \A i \in 1..Len(AllCards) :
        LET card == AllCards[i]
        IN  /\ card.seconds = AbsDiff(card.raw, currentTimestamp)
            /\ card.direction = (IF NumLE(card.raw, Num(currentTimestamp))
                                 THEN "ago" ELSE "from now")

\* The number of milestones with timestamp <= now.
PastMilestones(milestones, now) ==
    Cardinality({i \in 1..Len(milestones) : NumLE(milestones[i].timestamp, Num(now))})

\* C12: for N >= 6, offset 0 and pastCount >= 3, above is the milestones at sorted
\* indices pastCount-3 .. pastCount-1, and its last element has the greatest
\* timestamp <= now.
C12_AboveEndsAtBoundary ==
    [][(/\ UpdateVisibleMilestones
        /\ Len(allMilestones) >= 6
        /\ milestoneOffset = 0
        /\ PastMilestones(allMilestones, currentTimestamp) >= 3)
          => LET pastCount == PastMilestones(allMilestones, currentTimestamp)
                 above == visibleMilestones'.top
             IN  /\ above = << allMilestones[pastCount - 2], allMilestones[pastCount - 1],
                               allMilestones[pastCount] >>
                 /\ NumLE(above[3].timestamp, Num(currentTimestamp))
                 /\ \A i \in 1..Len(allMilestones) :
                        NumLE(allMilestones[i].timestamp, Num(currentTimestamp))
                            => NumLE(allMilestones[i].timestamp, above[3].timestamp)]_vars

\* C12 witness: seven milestones 1..7 at now = 5 and offset 0, with above 3, 4, 5.
C12_Witness ==
    /\ Len(allMilestones) = 7
    /\ milestoneOffset = 0
    /\ currentTimestamp = 5
    /\ Timestamps(visibleMilestones.top) = <<Num(3), Num(4), Num(5)>>

\* C13: at offset 0 every milestone placed in above has timestamp <= now and
\* every milestone placed in below has timestamp > now.
C13_AbovePastBelowFuture ==
    [][(UpdateVisibleMilestones /\ milestoneOffset = 0)
          => /\ \A i \in 1..Len(visibleMilestones'.top) :
                    NumLE(visibleMilestones'.top[i].timestamp, Num(currentTimestamp))
             /\ \A i \in 1..Len(visibleMilestones'.bottom) :
                    NumGT(visibleMilestones'.bottom[i].timestamp, Num(currentTimestamp))]_vars

\* C14: with N < 6 the window does not wrap: above followed by below is the
\* sorted set in ascending order, the first min(3, N) milestones in above and
\* the remainder in below.  (With N < 6 scrolling leaves the offset at 0.)
C14_SmallSetShownInOrder ==
    [][(UpdateVisibleMilestones /\ Len(allMilestones) < 6 /\ milestoneOffset = 0)
          => /\ visibleMilestones'.top \o visibleMilestones'.bottom = allMilestones
             /\ Len(visibleMilestones'.top) = Min(3, Len(allMilestones))]_vars

\* C15: the window holds min(6, N) entries and entry i (from 0) is the milestone
\* at index (baseStart + offset + i) mod N, the modulus taken non-negative, so
\* negative offsets wrap: 100..700 at now 350 and offset -5 gives above
\* 300, 400, 500 and below 600, 700, 100.
C15_NegativeOffsetsWrap ==
    [][(UpdateVisibleMilestones /\ Len(allMilestones) >= 1)
          => LET N == Len(allMilestones)
                 baseStart == Max(0, PastMilestones(allMilestones, currentTimestamp) - 3)
                 window == visibleMilestones'.top \o visibleMilestones'.bottom
             IN  /\ Len(window) = Min(6, N)
                 /\ \A i \in 0..(Len(window) - 1) :
                        window[i + 1] = allMilestones[((baseStart + milestoneOffset + i) % N) + 1]
                 /\ (allMilestones = HundredsSet /\ currentTimestamp = 350 /\ milestoneOffset = -5)
                        => /\ Timestamps(visibleMilestones'.top) = <<Num(300), Num(400), Num(500)>>
                           /\ Timestamps(visibleMilestones'.bottom) = <<Num(600), Num(700), Num(100)>>]_vars

\* C15 witness: the window computed for 100..700 at now 350 and offset -5.
C15_Witness ==
    /\ allMilestones = HundredsSet
    /\ currentTimestamp = 350
    /\ milestoneOffset = -5
    /\ Timestamps(visibleMilestones.top) = <<Num(300), Num(400), Num(500)>>
    /\ Timestamps(visibleMilestones.bottom) = <<Num(600), Num(700), Num(100)>>

\* C16: for every non-empty milestone set, every now and every offset, each
\* entry of above and of below is a milestone of the set, never undefined.
C16_WindowingIsTotal ==
    [][(UpdateVisibleMilestones /\ Len(allMilestones) >= 1)
          => LET window == visibleMilestones'.top \o visibleMilestones'.bottom
             IN  /\ Len(window) >= 1
                 /\ \A i \in 1..Len(window) :
                        /\ window[i] # Undefined
                        /\ \E j \in 1..Len(allMilestones) : window[i] = allMilestones[j]]_vars

\* C16 witness: a window computed for two milestones at offset -3, which
\* starts below index 0 and holds the second milestone before the first.
C16_Witness ==
    /\ Len(allMilestones) = 2
    /\ milestoneOffset = -3
    /\ visibleMilestones.top = <<allMilestones[2], allMilestones[1]>>

\* C17: with N >= 6 the window holds six entries taken from pairwise distinct
\* positions of the set, for every now and offset.  (The milestones of a set
\* differ in their timestamps, so distinct entries are distinct positions.)
C17_SixDistinctPositions ==
    [][(UpdateVisibleMilestones /\ Len(allMilestones) >= 6)
          => LET window == visibleMilestones'.top \o visibleMilestones'.bottom
                 Position(m) == {j \in 1..Len(allMilestones) : allMilestones[j] = m}
             IN  /\ Len(window) = 6
                 /\ \A a \in 1..6 : Cardinality(Position(window[a])) = 1
                 /\ \A a, b \in 1..6 :
                        a # b => Position(window[a]) # Position(window[b])]_vars

\* C17 witness: six milestones at offset 8, where the window wraps past the
\* end of the set and still takes each position once.
C17_Witness ==
    /\ Len(allMilestones) = 6
    /\ milestoneOffset = 8
    /\ currentTimestamp = 0
    /\ visibleMilestones.top = <<allMilestones[3], allMilestones[4], allMilestones[5]>>
    /\ visibleMilestones.bottom = <<allMilestones[6], allMilestones[1], allMilestones[2]>>

\* C18: in every reachable state state.allMilestones is sorted ascending by
\* timestamp, whether it holds fetched records, the fallback, or nothing after
\* destroy.
C18_MilestonesStaySorted == IsSorted(allMilestones)

\* C18 witness: loading has ended on the seed document, delivered out of order,
\* and its records are stored from the earliest to the latest.
C18_Witness ==
    /\ pc = "done"
    /\ Len(allMilestones) = 7
    /\ allMilestones[1].timestamp = Num(ClockStart - 3)
    /\ allMilestones[7].timestamp = Num(ClockStart + 3)
    /\ \A i \in 1..7 : allMilestones[i].description = "seed"

\* The conditions on a record: an object, a numeric timestamp >= 0, a
\* description that is a string with something other than whitespace in it.
MeetsRecordConditions(m) ==
    /\ m.isObject
    /\ m.tsType = "number" /\ NumLE(Num(0), m.timestamp)
    /\ m.descType = "string" /\ m.description \notin WhitespaceOnly

\* C19: validation drops exactly the invalid records: every record in the
\* milestone set is an object with a numeric timestamp >= 0 and a non-blank
\* string description, and validateMilestoneData keeps every record of the
\* document that meets those conditions (and only those, in document order).
C19_ValidationDropsExactlyInvalid ==
    /\ [](\A i \in 1..Len(allMilestones) : MeetsRecordConditions(allMilestones[i]))
    /\ [][(pc = "parsing" /\ pc' = "done" /\ responseBody[1].kind = "document")
             => LET document == responseBody[1].milestones
                    kept == ValidMilestones(document)
                    meeting == {j \in 1..Len(document) : MeetsRecordConditions(document[j])}
                IN  /\ Len(kept) = Cardinality(meeting)
                    /\ \A j \in meeting : \E i \in 1..Len(kept) : kept[i] = document[j]
                    /\ \A i \in 1..Len(kept) : MeetsRecordConditions(kept[i])
                    /\ Cardinality(meeting) \in 1..maxMilestones
                          => \A j \in meeting :
                                 \E i \in 1..Len(allMilestones') : allMilestones'[i] = document[j]]_vars

\* C19 witness: loading has ended on the mixed document; its two valid records,
\* one at timestamp 0, are the milestone set and its three invalid ones are gone.
C19_Witness ==
    /\ pc = "done"
    /\ allMilestones = << Milestone(Num(0), "epoch"), Milestone(Num(ClockStart), "now") >>

\* C20: every step that changes the offset with N > 6 loaded (only the wheel,
\* key and touch handlers do, through scrollMilestones) leaves, in the state
\* right after it, the window of (allMilestones, currentTimestamp, new
\* milestoneOffset): six entries, entry i taken at (baseStart + offset + i)
\* mod N, three above and three below.
C20_ScrollRecomputesWindow ==
    [][(Len(allMilestones) > 6 /\ milestoneOffset' # milestoneOffset)
          => LET N == Len(allMilestones)
                 baseStart == Max(0, PastMilestones(allMilestones, currentTimestamp) - 3)
                 Windowed(i) == allMilestones[((baseStart + milestoneOffset' + i) % N) + 1]
             IN  /\ visibleMilestones'.top = <<Windowed(0), Windowed(1), Windowed(2)>>
                 /\ visibleMilestones'.bottom = <<Windowed(3), Windowed(4), Windowed(5)>>
                 /\ visibleMilestones' =
                        UpdatedVisible(allMilestones, currentTimestamp, milestoneOffset')]_vars

\* C20 witness: seven milestones, four of them past, scrolled up by one: the
\* window starts at the first milestone.
C20_Witness ==
    /\ Len(allMilestones) = 7
    /\ currentTimestamp = ClockStart
    /\ milestoneOffset = -1
    /\ lastScrollDirection = <<-1>>
    /\ visibleMilestones.top = <<allMilestones[1], allMilestones[2], allMilestones[3]>>
    /\ visibleMilestones.bottom = <<allMilestones[4], allMilestones[5], allMilestones[6]>>

\* One periodic timer: the flag is set exactly when the stored handle is an
\* active interval, and no other interval is active.
OneTimer(running, interval, active) ==
    /\ running <=> (interval \in active)
    /\ Cardinality(active) <= 1
    /\ active \subseteq {interval}

\* C21: at most one periodic timer exists at any time: in every reachable state
\* isRunning is true exactly when updateInterval holds an active interval
\* handle, never are two intervals active, none is active that updateInterval
\* does not hold (one that stopClock could no longer clear), and a call of
\* startClock or of stopClock made in that state keeps all of this.
C21_AtMostOneTimer ==
    LET started == StartClock(isRunning, updateInterval, timers, nextHandle)
        stopped == StopClock(isRunning, updateInterval, timers)
    IN  /\ OneTimer(isRunning, updateInterval, timers)
        /\ OneTimer(started.isRunning, started.updateInterval, started.timers)
        /\ OneTimer(stopped.isRunning, stopped.updateInterval, stopped.timers)

\* C21 witness: the clock was started, stopped and started again: the second
\* interval is the only active one.
C21_Witness ==
    /\ isRunning
    /\ updateInterval = 2
    /\ timers = {2}

\* A wheel, key, touch or visibility event.
InputEvent ==
    \/ Wheel \/ Keyboard \/ TouchStart \/ TouchMove \/ HandleTouchEnd
    \/ VisibilityChange

\* C22: once destroy() has run, the interval timer is not running and never
\* runs again, and no later wheel, key, touch or visibility event changes the
\* widget's state, even when destroy ran while init was awaiting the fetch.
C22_CleanupIsEffective ==
    /\ [](~isRunning /\ timers = {})
    /\ [][InputEvent =>
             UNCHANGED <<currentTimestamp, currentDateTime, allMilestones,
                         visibleMilestones, milestoneOffset, isRunning, updateInterval,
                         timers, lastScrollDirection, listeners, touchState,
                         topCards, bottomCards>>]_vars

\* The six entries of a window, above first.
WindowOf(visible) == visible.top \o visible.bottom

\* The window in place is the one for the present past count and offset.
WindowIsCurrent ==
    LET N == Len(allMilestones)
        baseStart == Max(0, PastMilestones(allMilestones, currentTimestamp) - 3)
    IN  /\ Len(WindowOf(visibleMilestones)) = 6
        /\ \A i \in 0..5 :
               WindowOf(visibleMilestones)[i + 1] =
                   allMilestones[((baseStart + milestoneOffset + i) % N) + 1]

\* The milestone after m in the set, going round from the last to the first,
\* and the one before it, going round from the first to the last.
Successor(m) ==
    LET j == CHOOSE j \in 1..Len(allMilestones) : allMilestones[j] = m
    IN  allMilestones[(j % Len(allMilestones)) + 1]

Predecessor(m) ==
    LET j == CHOOSE j \in 1..Len(allMilestones) : allMilestones[j] = m
    IN  allMilestones[((j - 2) % Len(allMilestones)) + 1]

\* C23: with N > 6 and the past count unchanged since the window was computed,
\* a scroll step in direction +1 shifts the window by one position toward later
\* milestones (new window[i] = old window[i+1] for i in 0..4, new window[5] the
\* circular successor of old window[5]) and a step in direction -1 shifts it by
\* one toward earlier milestones.
C23_ScrollShiftsByOne ==
    [][(/\ Len(allMilestones) > 6
        /\ milestoneOffset' # milestoneOffset
        /\ WindowIsCurrent)
          => LET old == WindowOf(visibleMilestones)
                 new == WindowOf(visibleMilestones')
             IN  /\ Len(new) = 6
                 /\ milestoneOffset' = milestoneOffset + 1
                       => /\ \A i \in 1..5 : new[i] = old[i + 1]
                          /\ new[6] = Successor(old[6])
                 /\ milestoneOffset' = milestoneOffset - 1
                       => /\ \A i \in 2..6 : new[i] = old[i - 1]
                          /\ new[1] = Predecessor(old[1])]_vars

\* C23 witness: seven milestones, five of them past, scrolled down by one: the
\* window runs from the fourth milestone round to the second.
C23_Witness ==
    /\ Len(allMilestones) = 7
    /\ currentTimestamp = ClockStart + 1
    /\ milestoneOffset = 1
    /\ lastScrollDirection = <<1>>
    /\ visibleMilestones.top = <<allMilestones[4], allMilestones[5], allMilestones[6]>>
    /\ visibleMilestones.bottom = <<allMilestones[7], allMilestones[1], allMilestones[2]>>

\* milestoneOffset and visibleMilestones after scrollMilestones(direction) with
\* N > 6, from a state with the given offset.
AfterScroll(offset, direction) ==
    [milestoneOffset |-> offset + direction,
     visibleMilestones |->
         UpdatedVisible(allMilestones, currentTimestamp, offset + direction)]

\* ... after n calls of scrollMilestones(direction) with no tick in between.
RECURSIVE AfterScrolls(_, _)
AfterScrolls(direction, n) ==
    IF n = 0
    THEN [milestoneOffset |-> milestoneOffset, visibleMilestones |-> visibleMilestones]
    ELSE AfterScroll(AfterScrolls(direction, n - 1).milestoneOffset, direction)

\* C24: with N > 6 and no tick in between, scrollMilestones(+1) followed by
\* scrollMilestones(-1), or the reverse, restores milestoneOffset and the
\* visible window, and N scrolls in the same direction restore the visible
\* window with the offset moved by N.
C24_ScrollRoundTrip ==
    (Len(allMilestones) > 6 /\ listeners.scroll)
        => LET N == Len(allMilestones)
               downUp == AfterScroll(AfterScroll(milestoneOffset, 1).milestoneOffset, -1)
               upDown == AfterScroll(AfterScroll(milestoneOffset, -1).milestoneOffset, 1)
           IN  /\ downUp.milestoneOffset = milestoneOffset
               /\ downUp.visibleMilestones = visibleMilestones
               /\ upDown.milestoneOffset = milestoneOffset
               /\ upDown.visibleMilestones = visibleMilestones
               /\ \A direction \in {-1, 1} :
                      /\ AfterScrolls(direction, N).visibleMilestones = visibleMilestones
                      /\ AfterScrolls(direction, N).milestoneOffset
                             = milestoneOffset + direction * N

\* A card as it was, but for its past/future tag and its countdown.
SameCardRetimed(before, after) ==
    /\ after.raw = before.raw
    /\ after.classList \ {"past", "future"} = before.classList \ {"past", "future"}

\* C25: a clock tick changes only currentTimestamp, currentDateTime and the
\* past/future tag and countdown of the cards in place; it leaves
\* milestoneOffset, allMilestones, isRunning and updateInterval (and the rest
\* of the widget's state) as they were.
C25_TickFrame ==
    [][Tick =>
         /\ UNCHANGED <<milestoneOffset, allMilestones, isRunning, updateInterval>>
         /\ UNCHANGED <<visibleMilestones, timers, listeners, touchState,
                        lastScrollDirection, pc>>
         /\ Len(topCards') = Len(topCards)
         /\ Len(bottomCards') = Len(bottomCards)
         /\ \A i \in 1..Len(topCards) : SameCardRetimed(topCards[i], topCards'[i])
         /\ \A i \in 1..Len(bottomCards) :
                SameCardRetimed(bottomCards[i], bottomCards'[i])]_vars

\* C25 witness: seven milestones scrolled down by one at ClockStart, then a
\* tick at ClockStart + 1: the offset and the window are as the scroll left
\* them, and the card of the milestone at ClockStart + 1 has turned past.
C25_Witness ==
    /\ Len(allMilestones) = 7
    /\ currentTimestamp = ClockStart + 1
    /\ milestoneOffset = 1
    /\ isRunning
    /\ visibleMilestones.top = <<allMilestones[3], allMilestones[4], allMilestones[5]>>
    /\ Len(topCards) = 3
    /\ topCards[3].raw = Num(ClockStart + 1)
    /\ "past" \in topCards[3].classList
    /\ topCards[3].direction = "ago"

\* C26: a touch gesture (touchstart, touchmoves, touchend) changes
\* milestoneOffset at most once, by one step: a touchmove changes the offset
\* only in a gesture that has a touchstart and has not scrolled yet, by one,
\* and marks the gesture as scrolled; the mark stays until the next touchstart
\* or touchend; a touchmove in a gesture so marked, or with no touchstart
\* before it, changes neither the offset nor the window.
C26_OneScrollPerGesture ==
    /\ [][(milestoneOffset' # milestoneOffset /\ TouchMove)
             => /\ touchState.startY # <<>>
                /\ ~touchState.isScrolling
                /\ touchState'.isScrolling
                /\ milestoneOffset' \in {milestoneOffset - 1, milestoneOffset + 1}]_vars
    /\ [][(touchState.isScrolling /\ ~touchState'.isScrolling)
             => (TouchStart \/ HandleTouchEnd)]_vars
    /\ [][((touchState.isScrolling \/ touchState.startY = <<>>) /\ TouchMove)
             => UNCHANGED <<milestoneOffset, visibleMilestones, topCards, bottomCards>>]_vars

\* C26 witness: a gesture that started at 2 * threshold + 10 and has scrolled
\* once, down, with more than six milestones loaded.
C26_Witness ==
    /\ Len(allMilestones) > 6
    /\ touchState = [startY |-> <<2 * threshold + 10>>, isScrolling |-> TRUE]
    /\ milestoneOffset = 1
    /\ lastScrollDirection = <<1>>

\* C27: in a gesture that has not scrolled yet, a touchmove further than the
\* threshold from the touchstart position scrolls, by +1 when the finger moved
\* up (clientY below the start) and by -1 when it moved down, for every start
\* position, clientY = 0 included.
C27_FarTouchMoveScrolls ==
    (listeners.scroll /\ touchState.startY # <<>> /\ ~touchState.isScrolling)
        => \A clientY \in TouchPositions :
               LET startY == touchState.startY[1]
                   distance == IF clientY > startY THEN clientY - startY
                               ELSE startY - clientY
               IN  distance > threshold
                      => /\ TouchScrolls(clientY)
                         /\ TouchDirection(clientY) = (IF clientY < startY THEN 1 ELSE -1)

============================================================================
